---- MODULE Spec2Model ----
(***************************************************************************)
(* lands2hlf.py: translation of a counting-experiment datacard into a      *)
(* RooFit workspace-factory script.                                        *)
(*                                                                         *)
(* The script is modelled statement by statement.  A line of the datacard  *)
(* is a record [ind, f]: f is the result of l.split() and ind says whether *)
(* the raw line starts with whitespace (so that l.startswith("--") can be  *)
(* told apart from f[0] starting with "--").  Floating point values are    *)
(* kept in tenths (float("1.1") is 11); every value of the token           *)
(* vocabulary is a whole number of tenths, so the sums of line 55 and the  *)
(* %f / %g renderings of lines 62, 85, 88 and 93 are exact on them.        *)
(* A printed statement is a record: its kind, the symbol it declares, its  *)
(* initial value and range, its formula (a sequence of terms), its         *)
(* argument list and the symbols it declares inline.                       *)
(***************************************************************************)
EXTENDS Integers, Sequences, FiniteSets, TLC

VARIABLES pc, stat, asimov, l, bins, processes, nuisances, obs, exp, systs, err, out

vars == <<pc, stat, asimov, l, bins, processes, nuisances, obs, exp, systs, err, out>>

(* ------------------------------ bounds -------------------------------- *)

\* largest imax, jmax+1 and kmax value a datacard line of the vocabulary carries
MaxBins == 2
MaxProc == 2
MaxNuis == 2
\* largest imax of the many-bin datacards of SpecLarge
MaxLargeBins == 61

(* ------------------------- program constants -------------------------- *)

N_OBS_MAX == 10000
\* bins > 50 selects the blocked aggregation; 50 also caps the direct product
DirectCap == 50
\* bins per block of the blocked aggregation
BlockSize == 10

(* ------------------------- tokens and builtins ------------------------ *)

Digits == <<"0", "1", "2", "3", "4", "5", "6", "7", "8", "9">>

\* str(k), for the one-digit k the vocabulary needs
Str(k) == Digits[k + 1]

\* int(tok): defined on the one-digit tokens, ValueError on the others
IsInt(tok) == \E k \in 0..9 : Digits[k + 1] = tok
ParseInt(tok) == CHOOSE k \in 0..9 : Digits[k + 1] = tok

\* float(tok), in tenths; ValueError off the table.  Several spellings of
\* one value ("1", "1.0", "1.00") parse to the same float.
FloatTokens == {"0", "1", "2", "5", "10", "1.0", "1.00", "1.1", "0.9"}
IsFloat(tok) == tok \in FloatTokens
ParseFloat(tok) ==
    CASE tok = "0" -> 0
      [] tok = "1" -> 10
      [] tok = "1.0" -> 10
      [] tok = "1.00" -> 10
      [] tok = "2" -> 20
      [] tok = "5" -> 50
      [] tok = "10" -> 100
      [] tok = "1.1" -> 11
      [] tok = "0.9" -> 9

\* 1.0 in tenths
One == ParseFloat("1.0")

\* tokens of the vocabulary that start with "--"
DashTokens == {"--", "---------"}

Line(ind, f) == [ind |-> ind, f |-> f]

\* l.split()
Split(line) == line.f

\* l.startswith("--")
StartsWithDashes(line) ==
    /\ ~line.ind
    /\ Len(line.f) >= 1
    /\ line.f[1] \in DashTokens

\* sum(s) of a sequence of floats
RECURSIVE Sum(_)
Sum(s) == IF s = <<>> THEN 0 ELSE s[1] + Sum(Tail(s))

\* s[1:]
Rest(s) == IF s = <<>> THEN <<>> ELSE Tail(s)

(* ------------------------ the datacard vocabulary --------------------- *)

MaxCells == MaxBins * MaxProc

\* k tokens, a and b alternating
Row(k, a, b) == [i \in 1..k |-> IF i % 2 = 1 THEN a ELSE b]

\* the bin row of a well-formed datacard: bin index i/processes+1 at cell i
BinRow(nb, np) == [i \in 1..(nb * np) |-> Str(((i - 1) \div np) + 1)]

BlankLines == {Line(FALSE, <<>>), Line(TRUE, <<>>)}

CommentLines == {Line(FALSE, <<"--">>), Line(FALSE, <<"---------", "lumi">>)}

HeaderLines ==
    {Line(FALSE, <<"imax", Str(k)>>) : k \in 1..MaxBins}
    \cup {Line(FALSE, <<"jmax", Str(k)>>) : k \in 0..(MaxProc - 1)}
    \cup {Line(FALSE, <<"kmax", Str(k)>>) : k \in 0..MaxNuis}
    \cup {Line(FALSE, <<"imax">>), Line(FALSE, <<"kmax", "x">>)}
    \cup {Line(FALSE, <<"Observation">> \o Row(k, "2", "5")) : k \in 0..MaxBins}
    \cup {Line(FALSE, <<"Observation", "x">>)}
    \cup {Line(FALSE, <<"bin">> \o BinRow(nb, np)) : nb \in 1..MaxBins, np \in 1..MaxProc}
    \cup {Line(FALSE, <<"bin">> \o Row(k, "1", "1")) : k \in {2, MaxCells}}
    \cup {Line(FALSE, <<"process">> \o Row(k, "0", "1")) : k \in 0..MaxCells}

RateLines == {Line(FALSE, <<"rate">> \o Row(k, "10", "5")) : k \in 0..MaxCells}

SystPairs == {<<"1.1", "1.0">>, <<"1", "0.9">>}

SystLines ==
    {Line(FALSE, <<Str(i), "lnN">> \o Row(k, ab[1], ab[2])) :
        i \in 1..MaxNuis, k \in 0..MaxCells, ab \in SystPairs}
    \cup {Line(FALSE, <<Str(i), "gmN">> \o Row(MaxCells, "1.1", "1.0")) : i \in 1..MaxNuis}
    \cup {Line(FALSE, <<"1">>), Line(TRUE, <<"--">>)}

\* the lines met by the first loop: the header and the rate table, with blank
\* and comment lines and a line of no known keyword among them
HeadLines ==
    BlankLines \cup CommentLines \cup HeaderLines \cup RateLines
    \cup {Line(FALSE, <<"1", "lnN">> \o Row(MaxCells, "1.1", "1.0"))}

\* the lines met by the second loop: the systematics table, with blank and
\* comment lines and a keyword line among them
TailLines ==
    BlankLines \cup CommentLines \cup SystLines \cup {Line(FALSE, <<"kmax", "1">>)}

\* no line is being read (before the first loop, after the last)
NoLine == Line(FALSE, <<"">>)

(* --------------------------- the statements --------------------------- *)

\* a symbol of the script: base name and up to two indices (-1: none), so
\* n_exp_bin0_proc1 is Sym("n_exp_bin_proc", 0, 1)
Sym(base, i, j) == [base |-> base, i |-> i, j |-> j]
NoSym == Sym("", -1, -1)

\* one printed statement
Stmt(kind, name, init, range, formula, args, decl) ==
    [kind |-> kind, name |-> name, init |-> init, range |-> range,
     formula |-> formula, args |-> args, decl |-> decl]

\* "/// ----- text -----"
Comment(text) == Stmt("comment", Sym(text, -1, -1), <<>>, <<>>, <<>>, <<>>, <<>>)

\* name[init,lo,hi], name[lo,hi] or name[init]
Var(name, init, range) == Stmt("var", name, init, range, <<>>, <<>>, <<>>)

\* name = set(a, b, ...)
SetOf(name, members) == Stmt("set", name, <<>>, <<>>, <<>>, members, <<>>)

\* name = PROD(a, b, ...)
Prod(name, factors) == Stmt("PROD", name, <<>>, <<>>, <<>>, factors, <<>>)

\* name = expr('formula', args)
Expr(name, formula, args) == Stmt("expr", name, <<>>, <<>>, formula, args, <<>>)

\* one term of a formula: op is "num" (a number v), "pow" (" * pow(v,s)"),
\* "r*" ("r*s"), "+" ("+s") or "id" ("s")
Term(op, v, s) == [op |-> op, v |-> v, s |-> s]

(* ----------------------------- the parser ----------------------------- *)

\* [float(f[off+1+(b*np + p)]) for p in range(np)] for b in range(nb), with the
\* fault of the first cell that cannot be read: past the end of f (IndexError)
\* or not a float (ValueError)
ReadCells(f, off, nb, np) ==
    LET BadCell(i) == \/ off + i > Len(f)
                      \/ ~IsFloat(f[off + i])
        bad   == {i \in 1..(nb * np) : BadCell(i)}
        first == CHOOSE i \in bad : \A j \in bad : i <= j
    IN  IF bad # {}
        THEN [err  |-> IF off + first > Len(f) THEN "IndexError" ELSE "ValueError",
              rows |-> <<>>]
        ELSE [err  |-> "none",
              rows |-> [b \in 1..nb |-> [p \in 1..np |-> ParseFloat(f[off + (b - 1) * np + p])]]]

\* the model description as it stands, no error, loop not left
Cur ==
    [bins |-> bins, processes |-> processes, nuisances |-> nuisances,
     obs |-> obs, exp |-> exp, systs |-> systs, err |-> "none", brk |-> FALSE]

\* f[1] of a keyword line as an integer, or the fault of reading it
IntField(f) ==
    IF Len(f) < 2 THEN [err |-> "IndexError", val |-> 0]
    ELSE IF ~IsInt(f[2]) THEN [err |-> "ValueError", val |-> 0]
    ELSE [err |-> "none", val |-> ParseInt(f[2])]

\* the observation count check of line 26, without it
ObsCountUnchecked(o) == FALSE

\* the observation count check of line 26
ObsCountMismatch(o) == Len(o) # bins

\* the body of the first loop on one line
FirstPassLine(line) ==
    LET f    == Split(line)
        n    == Len(f) - 1
        cells == bins * processes
    IN  IF Len(f) < 1 THEN Cur
        ELSE CASE f[1] = "imax" ->
                    LET v == IntField(f)
                    IN  IF v.err # "none" THEN [Cur EXCEPT !.err = v.err]
                        ELSE [Cur EXCEPT !.bins = v.val]
               [] f[1] = "jmax" ->
                    LET v == IntField(f)
                    IN  IF v.err # "none" THEN [Cur EXCEPT !.err = v.err]
                        ELSE [Cur EXCEPT !.processes = v.val + 1]
               [] f[1] = "kmax" ->
                    LET v == IntField(f)
                    IN  IF v.err # "none" THEN [Cur EXCEPT !.err = v.err]
                        ELSE [Cur EXCEPT !.nuisances = v.val]
               [] f[1] = "Observation" ->
                    IF \E i \in 2..Len(f) : ~IsFloat(f[i])
                    THEN [Cur EXCEPT !.err = "ValueError"]
                    ELSE LET o == [i \in 1..n |-> ParseFloat(f[i + 1])]
                         IN  IF ObsCountMismatch(o)
                             THEN [Cur EXCEPT !.obs = o, !.err = "ObsCount"]
                             ELSE [Cur EXCEPT !.obs = o]
               [] f[1] = "bin" ->
                    IF n # cells THEN [Cur EXCEPT !.err = "BinLen"]
                    ELSE IF \E i \in 1..n : f[i + 1] # Str(((i - 1) \div processes) + 1)
                    \* the message of line 30 reads the undefined name `line`
                    THEN [Cur EXCEPT !.err = "NameError"]
                    ELSE Cur
               [] f[1] = "process" ->
                    IF n < cells THEN [Cur EXCEPT !.err = "ProcessLen"] ELSE Cur
               [] f[1] = "rate" ->
                    IF n < cells THEN [Cur EXCEPT !.err = "RateLen"]
                    ELSE LET r == ReadCells(f, 1, bins, processes)
                         IN  IF r.err # "none" THEN [Cur EXCEPT !.err = r.err]
                             ELSE [Cur EXCEPT !.exp = exp \o r.rows, !.brk = TRUE]
               [] OTHER -> Cur

\* the body of the second loop on one line
SecondPassLine(line) ==
    LET f     == Split(line)
        cells == bins * processes
    IN  IF StartsWithDashes(line) THEN Cur
        ELSE IF Len(f) < 1 THEN [Cur EXCEPT !.err = "IndexError"]
        ELSE IF ~IsInt(f[1]) THEN [Cur EXCEPT !.err = "ValueError"]
        ELSE IF Len(f) < 2 THEN [Cur EXCEPT !.err = "IndexError"]
        ELSE IF ParseInt(f[1]) # Len(systs) + 1 THEN [Cur EXCEPT !.err = "SystIndex"]
        ELSE IF f[2] # "lnN" THEN [Cur EXCEPT !.err = "SystPdf"]
        ELSE IF Len(f) - 1 < cells THEN [Cur EXCEPT !.err = "SystLen"]
        ELSE LET r == ReadCells(f, 2, bins, processes)
             IN  IF r.err # "none" THEN [Cur EXCEPT !.err = r.err]
                 ELSE [Cur EXCEPT !.systs = Append(systs, r.rows)]

(* ------------------------------ actions ------------------------------- *)

Init ==
    /\ pc = "pass1"
    /\ stat \in BOOLEAN
    /\ asimov \in BOOLEAN
    /\ l = NoLine
    /\ bins = 1
    /\ processes = 1
    /\ nuisances = 0
    /\ obs = <<>>
    /\ exp = <<>>
    /\ systs = <<>>
    /\ err = "none"
    /\ out = <<>>

\* the run ends on an uncaught exception: the interpreter exits and the model
\* description is gone; what was printed stays printed
Exit(e) ==
    /\ pc' = "failed"
    /\ err' = e
    /\ bins' = 0
    /\ processes' = 0
    /\ nuisances' = 0
    /\ obs' = <<>>
    /\ exp' = <<>>
    /\ systs' = <<>>
    /\ UNCHANGED <<stat, asimov>>

\* the model description after one line of either loop
Store(r, next) ==
    IF r.err # "none"
    THEN Exit(r.err) /\ out' = out
    ELSE /\ bins' = r.bins
         /\ processes' = r.processes
         /\ nuisances' = r.nuisances
         /\ obs' = r.obs
         /\ exp' = r.exp
         /\ systs' = r.systs
         /\ err' = "none"
         /\ pc' = next
         /\ UNCHANGED <<stat, asimov, out>>

\* one iteration of the first loop
ReadHeaderLine ==
    /\ pc = "pass1"
    /\ \E line \in HeadLines :
        LET r == FirstPassLine(line)
        IN  /\ l' = line
            /\ Store(r, IF r.brk THEN "pass2" ELSE "pass1")

\* the file ends inside the first loop: the second loop finds nothing to read
HeaderEOF ==
    /\ pc = "pass1"
    /\ pc' = "options"
    /\ l' = NoLine
    /\ UNCHANGED <<stat, asimov, bins, processes, nuisances, obs, exp, systs, err, out>>

\* one iteration of the second loop
ReadSystLine ==
    /\ pc = "pass2"
    /\ \E line \in TailLines :
        /\ l' = line
        /\ Store(SecondPassLine(line), "pass2")

\* the file ends inside the second loop
SystEOF ==
    /\ pc = "pass2"
    /\ pc' = "options"
    /\ l' = NoLine
    /\ UNCHANGED <<stat, asimov, bins, processes, nuisances, obs, exp, systs, err, out>>

\* nuisances and systs after the --stat mutation
StatNuisances == IF stat THEN 0 ELSE nuisances
StatSysts == IF stat THEN <<>> ELSE systs

\* obs after the --asimov mutation
AsimovObs == IF asimov THEN [b \in 1..Len(exp) |-> Sum(Rest(exp[b]))] ELSE obs

\* PostParse with the count check after the first print
PostParseLate ==
    /\ pc = "options"
    /\ IF Len(StatSysts) # StatNuisances
       THEN /\ Exit("SystCount")
            /\ out' = out \o <<Comment("observables")>>
       ELSE /\ pc' = "observables"
            /\ nuisances' = StatNuisances
            /\ systs' = StatSysts
            /\ obs' = AsimovObs
            /\ UNCHANGED <<stat, asimov, bins, processes, exp, err, out>>
    /\ UNCHANGED l

\* the option mutations and the systematics count check that follows them
PostParse ==
    /\ pc = "options"
    /\ IF Len(StatSysts) # StatNuisances
       THEN Exit("SystCount")
       ELSE /\ pc' = "observables"
            /\ nuisances' = StatNuisances
            /\ systs' = StatSysts
            /\ obs' = AsimovObs
            /\ UNCHANGED <<stat, asimov, bins, processes, exp, err>>
    /\ UNCHANGED <<l, out>>

ParseNext == ReadHeaderLine \/ HeaderEOF \/ ReadSystLine \/ SystEOF \/ PostParse


(* ---------------------------- the generator --------------------------- *)

RECURSIVE Flatten(_)
Flatten(ss) == IF ss = <<>> THEN <<>> ELSE ss[1] \o Flatten(Tail(ss))

\* [x for x in range(a, b)], as the 0-based values
Range(a, b) == [k \in 1..(IF b > a THEN b - a ELSE 0) |-> a + k - 1]

Min(a, b) == IF a < b THEN a ELSE b

\* the n_obs_bin statements of the first k bins
ObsStmts(k) ==
    [b \in 1..k |->
        IF Len(obs) > 0
        THEN Var(Sym("n_obs_bin", b - 1, -1), <<obs[b]>>, <<0, N_OBS_MAX>>)
        ELSE Var(Sym("n_obs_bin", b - 1, -1), <<>>, <<0, N_OBS_MAX>>)]

ObsSet == SetOf(Sym("observables", -1, -1), [b \in 1..bins |-> Sym("n_obs_bin", b - 1, -1)])

\* the observables; obs[b] faults when obs is shorter than bins
EmitObservables ==
    /\ pc = "observables"
    /\ IF Len(obs) > 0
       THEN IF Len(obs) < bins
            THEN /\ out' = out \o <<Comment("observables (already set to asimov values)")>>
                                \o ObsStmts(Len(obs))
                 /\ Exit("IndexError")
            ELSE /\ out' = out \o <<Comment("observables (already set to asimov values)")>>
                                \o ObsStmts(bins) \o <<ObsSet>>
                 /\ pc' = "poi"
                 /\ UNCHANGED <<stat, asimov, bins, processes, nuisances, obs, exp, systs, err>>
       ELSE /\ out' = out \o <<Comment("observables")>> \o ObsStmts(bins) \o <<ObsSet>>
            /\ pc' = "poi"
            /\ UNCHANGED <<stat, asimov, bins, processes, nuisances, obs, exp, systs, err>>
    /\ UNCHANGED l

\* the parameter of interest
EmitPOI ==
    /\ pc = "poi"
    /\ out' = out \o <<Comment("parameters of interest"),
                       Var(Sym("r", -1, -1), <<>>, <<0, 20>>),
                       SetOf(Sym("POI", -1, -1), <<Sym("r", -1, -1)>>)>>
    /\ pc' = "nuisances"
    /\ UNCHANGED <<stat, asimov, l, bins, processes, nuisances, obs, exp, systs, err>>

Theta(n) == Sym("theta", n, -1)

\* thetaPdf_n = Gaussian(theta_n[-5,5], 0, 1): declares theta_n on the spot
ThetaPdf(n) ==
    Stmt("Gaussian", Sym("thetaPdf", n, -1), <<>>, <<-5, 5>>, <<>>, <<Theta(n)>>, <<Theta(n)>>)

NuisanceStmts ==
    IF nuisances # 0
    THEN <<Comment("nuisances")>>
         \o [n \in 1..nuisances |-> ThetaPdf(n - 1)]
         \o <<SetOf(Sym("nuisances", -1, -1), [n \in 1..nuisances |-> Theta(n - 1)]),
              Prod(Sym("nuisancePdf", -1, -1), [n \in 1..nuisances |-> Sym("thetaPdf", n - 1, -1)])>>
    ELSE <<>>

\* the nuisance priors, when there are nuisances
EmitNuisances ==
    /\ pc = "nuisances"
    /\ out' = out \o NuisanceStmts
    /\ pc' = "yields"
    /\ UNCHANGED <<stat, asimov, l, bins, processes, nuisances, obs, exp, systs, err>>

\* the test of line 87 as a test for factors above 1.0
AppliesAbove(n, b, p) == systs[n][b][p] > One

\* whether the nuisance n enters the yield of (b, p): the test of line 87
Applies(n, b, p) == systs[n][b][p] # One

\* n_exp_bin<b>_proc<p>, for the 1-based b and p
ProcStmt(b, p) ==
    LET name == Sym("n_exp_bin_proc", b - 1, p - 1)
        ns   == SelectSeq([n \in 1..nuisances |-> n], LAMBDA n : Applies(n, b, p))
    IN  IF ns # <<>>
        THEN Expr(name,
                  <<Term("num", exp[b][p], NoSym)>>
                      \o [k \in 1..Len(ns) |-> Term("pow", systs[ns[k]][b][p], Theta(ns[k] - 1))],
                  [k \in 1..Len(ns) |-> Theta(ns[k] - 1)])
        ELSE Var(name, <<exp[b][p]>>, <<>>)

\* n_exp_bin<b> = expr('r*p0+p1+...', r, p0, p1, ...)
TotalStmt(b) ==
    Expr(Sym("n_exp_bin", b - 1, -1),
         [p \in 1..processes |->
             Term(IF p = 1 THEN "r*" ELSE "+", 0, Sym("n_exp_bin_proc", b - 1, p - 1))],
         <<Sym("r", -1, -1)>> \o [p \in 1..processes |-> Sym("n_exp_bin_proc", b - 1, p - 1)])

\* n_exp_bin<b>_bonly = expr('p1+p2+...', p1, p2, ...)
BonlyStmt(b) ==
    Expr(Sym("n_exp_bin_bonly", b - 1, -1),
         [k \in 1..(processes - 1) |->
             Term(IF k = 1 THEN "id" ELSE "+", 0, Sym("n_exp_bin_proc", b - 1, k))],
         [k \in 1..(processes - 1) |-> Sym("n_exp_bin_proc", b - 1, k)])

\* what the loop of line 83 prints for the first k bins
YieldStmts(k) ==
    Flatten([b \in 1..k |-> [p \in 1..processes |-> ProcStmt(b, p)] \o <<TotalStmt(b), BonlyStmt(b)>>])

\* exp[b][p] or some systs[n][b][p] is not there
CellFault(b, p) ==
    \/ b > Len(exp)
    \/ p > Len(exp[b])
    \/ \E n \in 1..nuisances : \/ n > Len(systs)
                               \/ b > Len(systs[n])
                               \/ p > Len(systs[n][b])

\* the expected yields; the first cell that is not there faults, after the
\* statements before it were printed
EmitYields ==
    /\ pc = "yields"
    /\ LET bad == {c \in (1..bins) \X (1..processes) : CellFault(c[1], c[2])}
           first == CHOOSE c \in bad :
                        \A d \in bad : c[1] < d[1] \/ (c[1] = d[1] /\ c[2] <= d[2])
       IN  IF bad # {}
           THEN /\ out' = out \o <<Comment("Expected events in each bin, for each process")>>
                               \o YieldStmts(first[1] - 1)
                               \o [p \in 1..(first[2] - 1) |-> ProcStmt(first[1], p)]
                /\ Exit("IndexError")
           ELSE /\ out' = out \o <<Comment("Expected events in each bin, for each process")>>
                               \o YieldStmts(bins)
                /\ pc' = "pdfs"
                /\ UNCHANGED <<stat, asimov, bins, processes, nuisances, obs, exp, systs, err>>
    /\ UNCHANGED l

\* pdf_bin<b> and pdf_bin<b>_bonly
PdfStmts ==
    Flatten([b \in 1..bins |->
        <<Stmt("Poisson", Sym("pdf_bin", b - 1, -1), <<>>, <<>>, <<>>,
               <<Sym("n_obs_bin", b - 1, -1), Sym("n_exp_bin", b - 1, -1)>>, <<>>),
          Stmt("Poisson", Sym("pdf_bin_bonly", b - 1, -1), <<>>, <<>>, <<>>,
               <<Sym("n_obs_bin", b - 1, -1), Sym("n_exp_bin_bonly", b - 1, -1)>>, <<>>)>>])

\* the Poisson density of each bin
EmitPdfs ==
    /\ pc = "pdfs"
    /\ out' = out \o <<Comment("Expected events in each bin, total (S+B and B)")>> \o PdfStmts
    /\ pc' = "aggregate"
    /\ UNCHANGED <<stat, asimov, l, bins, processes, nuisances, obs, exp, systs, err>>

\* prefix + "_s" and prefix + "_b"
PrefixS == IF nuisances # 0 THEN "modelObs_s" ELSE "model_s"
PrefixB == IF nuisances # 0 THEN "modelObs_b" ELSE "model_b"

\* the number of blocks with the division rounded down
NBlocksFloor == bins \div BlockSize

\* int(ceil(bins/10.))
NBlocks == IF bins % BlockSize = 0 THEN bins \div BlockSize ELSE (bins \div BlockSize) + 1

\* the bins of block i: range(10*i, min(bins, 10*i+10))
BlockBins(i) == Range(BlockSize * i, Min(bins, BlockSize * i + BlockSize))

\* whether the bins are multiplied block by block
Blocked == bins > DirectCap

AggregationStmts ==
    IF Blocked
    THEN Flatten([k \in 1..NBlocks |->
            <<Prod(Sym(PrefixS, k - 1, -1),
                   [j \in 1..Len(BlockBins(k - 1)) |-> Sym("pdf_bin", BlockBins(k - 1)[j], -1)]),
              Prod(Sym(PrefixB, k - 1, -1),
                   [j \in 1..Len(BlockBins(k - 1)) |-> Sym("pdf_bin_bonly", BlockBins(k - 1)[j], -1)])>>])
         \o <<Prod(Sym(PrefixS, -1, -1), [k \in 1..NBlocks |-> Sym(PrefixS, k - 1, -1)]),
              Prod(Sym(PrefixB, -1, -1), [k \in 1..NBlocks |-> Sym(PrefixB, k - 1, -1)])>>
    ELSE <<Prod(Sym(PrefixS, -1, -1),
                [j \in 1..Len(Range(0, Min(DirectCap, bins))) |->
                    Sym("pdf_bin", Range(0, Min(DirectCap, bins))[j], -1)]),
           Prod(Sym(PrefixB, -1, -1),
                [j \in 1..Len(Range(0, Min(DirectCap, bins))) |->
                    Sym("pdf_bin_bonly", Range(0, Min(DirectCap, bins))[j], -1)])>>

\* the product of the bins' densities
EmitAggregation ==
    /\ pc = "aggregate"
    /\ out' = out \o AggregationStmts
    /\ pc' = "model"
    /\ UNCHANGED <<stat, asimov, l, bins, processes, nuisances, obs, exp, systs, err>>

ModelStmts ==
    IF nuisances # 0
    THEN <<Prod(Sym("model_s", -1, -1), <<Sym("modelObs_s", -1, -1), Sym("nuisancePdf", -1, -1)>>),
           Prod(Sym("model_b", -1, -1), <<Sym("modelObs_b", -1, -1), Sym("nuisancePdf", -1, -1)>>)>>
    ELSE <<>>

\* the product with the nuisance priors, when there are nuisances
EmitModel ==
    /\ pc = "model"
    /\ out' = out \o ModelStmts
    /\ pc' = "done"
    /\ UNCHANGED <<stat, asimov, l, bins, processes, nuisances, obs, exp, systs, err>>

GenNext ==
    EmitObservables \/ EmitPOI \/ EmitNuisances \/ EmitYields \/ EmitPdfs
        \/ EmitAggregation \/ EmitModel

Next == ParseNext \/ GenNext

Spec == Init /\ [][Next]_vars

(* --------------------- datacards with many bins ----------------------- *)

\* the model description read from the datacard of nb bins, a signal and a
\* background of rates 10 and 5, and k systematics of factors 1.1 and 1.0,
\* after the option mutations and the count check
LargeInit ==
    /\ pc = "observables"
    /\ stat = FALSE
    /\ asimov = FALSE
    /\ l = NoLine
    /\ bins \in 1..MaxLargeBins
    /\ processes = 2
    /\ nuisances \in 0..1
    /\ obs = <<>>
    /\ exp = [b \in 1..bins |-> <<ParseFloat("10"), ParseFloat("5")>>]
    /\ systs = [n \in 1..nuisances |-> [b \in 1..bins |-> <<ParseFloat("1.1"), ParseFloat("1.0")>>]]
    /\ err = "none"
    /\ out = <<>>

SpecLarge == LargeInit /\ [][GenNext]_vars

(* ------------------------------ the claims ---------------------------- *)

\* a step of either loop that reads the line l'
ReadStep == pc \in {"pass1", "pass2"} /\ pc' # "options"

\* the first token of a line, "" for a blank line
Keyword(line) == IF Len(line.f) >= 1 THEN line.f[1] ELSE ""

\* the indices of the statements of out that declare a symbol of base name base
Decls(base) == {k \in 1..Len(out) : out[k].kind # "comment" /\ out[k].name.base = base}

\* the number of places of the sequence s that hold x
Count(s, x) == Cardinality({j \in 1..Len(s) : s[j] = x})

\* C1: whenever the number of systematics rows read by the second loop
\* differs from the count declared on the kmax line, whatever the options,
\* the run ends in the systematics count error and has printed nothing.
C1_CountMismatchFails ==
    [][(pc = "options" /\ Len(systs) # nuisances)
          => (pc' = "failed" /\ err' = "SystCount" /\ out' = <<>>)]_vars

\* C2 as stated: once the first loop has accepted its lines, in any order,
\* obs is empty or as long as the final value of bins.
C2_ObsLenIsFinalBins ==
    (pc \in {"pass2", "options"} /\ err = "none") => (obs = <<>> \/ Len(obs) = bins)

\* C2 amended: an accepted Observation line leaves obs as long as bins is at
\* that line, and every accepted line of the first loop other than an imax
\* line keeps "obs is empty or as long as bins"; so the claim holds of the
\* final bins when no imax line follows the last Observation line.
C2_ObsLenIsBinsAtObservation ==
    [][(pc = "pass1" /\ pc' \in {"pass1", "pass2"})
          => /\ Keyword(l') = "Observation" => Len(obs') = bins'
             /\ (Keyword(l') # "imax" /\ (obs = <<>> \/ Len(obs) = bins))
                    => (obs' = <<>> \/ Len(obs') = bins')]_vars

\* an Observation line of two values was accepted and the rate line read
C2_Witness == pc = "pass2" /\ Len(obs) = 2 /\ bins = 2 /\ Keyword(l) = "rate"

\* C3: when generation begins, after every validation has passed, exp has
\* bins rows of processes values each.
C3_ExpectedShape ==
    pc = "observables"
        => /\ Len(exp) = bins
           /\ \A b \in 1..Len(exp) : Len(exp[b]) = processes

\* the failures the parser and the count check detect; the misordered bin row
\* is detected at line 30, whose message then fails with a NameError
ValidationFailures ==
    {"ObsCount", "BinLen", "NameError", "ProcessLen", "RateLen",
     "SystIndex", "SystPdf", "SystLen", "SystCount"}

\* C4: no statement is printed before a validation failure is raised.
C4_NoOutputBeforeFailure == err \in ValidationFailures => out = <<>>

\* a run that ended in the systematics count error
C4_Witness == pc = "failed" /\ err = "SystCount" /\ out = <<>> /\ ~stat

\* whether the row l' gets as far as the field count check of line 44
ReachesFieldCount ==
    /\ ~StartsWithDashes(l')
    /\ Len(l'.f) >= 2
    /\ IsInt(l'.f[1])
    /\ ParseInt(l'.f[1]) = Len(systs) + 1
    /\ l'.f[2] = "lnN"

\* C5: a systematics row with fewer than bins*processes scale factors after
\* its index and family is rejected by the field count error, never by an
\* indexing fault.
C5_ShortRowRejectedByFieldCount ==
    [][(pc = "pass2" /\ ReadStep /\ ReachesFieldCount
            /\ Len(l'.f) - 2 < bins * processes)
          => err' = "SystLen"]_vars

\* C6: a blank line or a line beginning with "--", read by either loop,
\* leaves the model description as it is and causes no failure.
C6_BlankAndCommentSkipped ==
    [][(ReadStep /\ (Len(l'.f) = 0 \/ StartsWithDashes(l')))
          => /\ err' = "none"
             /\ pc' = pc
             /\ <<bins, processes, nuisances, obs, exp, systs>>'
                    = <<bins, processes, nuisances, obs, exp, systs>>]_vars

\* C7: theta_n is in the formula and in the argument list of
\* n_exp_bin<b>_proc<p> exactly when systs[n][b][p] differs from 1.0, and the
\* symbol is a plain value exactly when no nuisance has such a factor there,
\* an expression otherwise.
C7_ThetaIffFactorNotOne ==
    err = "none" =>
        \A k \in Decls("n_exp_bin_proc") :
            LET st == out[k]
                b  == st.name.i + 1
                p  == st.name.j + 1
            IN  /\ \A n \in 1..nuisances :
                        /\ (systs[n][b][p] # One)
                              <=> (\E j \in 1..Len(st.formula) :
                                      st.formula[j].op = "pow" /\ st.formula[j].s = Theta(n - 1))
                        /\ (systs[n][b][p] # One) <=> Count(st.args, Theta(n - 1)) = 1
                        /\ Count(st.args, Theta(n - 1)) <= 1
                /\ \A j \in 1..Len(st.args) :
                        \E n \in 1..nuisances : st.args[j] = Theta(n - 1)
                /\ st.kind = "var" <=> (\A n \in 1..nuisances : systs[n][b][p] = One)
                /\ st.kind = "expr" <=> (\E n \in 1..nuisances : systs[n][b][p] # One)

\* of two nuisances, a yield that depends on the second one only (the first
\* one's factor there is 1.0), beside a yield that depends on the first only
C7_Witness ==
    /\ err = "none"
    /\ nuisances = 2
    /\ \E k \in Decls("n_exp_bin_proc") : out[k].kind = "expr" /\ out[k].args = <<Theta(1)>>
    /\ \E k \in Decls("n_exp_bin_proc") : out[k].kind = "expr" /\ out[k].args = <<Theta(0)>>

\* C8: with --asimov, once the observables are printed, every n_obs_bin<b>
\* has for initial value the sum of exp[b] over the processes but the first.
C8_AsimovInitialValue ==
    (asimov /\ pc = "poi") =>
        \A k \in Decls("n_obs_bin") :
            /\ out[k].init # <<>>
            /\ out[k].name.i + 1 <= Len(exp)
            /\ out[k].init[1] = Sum(Rest(exp[out[k].name.i + 1]))

\* the least n with n * BlockSize >= bins
CeilBlocks == CHOOSE n \in 0..bins : n * BlockSize >= bins /\ (n - 1) * BlockSize < bins

\* C9 for one variant: top is the base name of the product (and of its
\* blocks), pdf the base name of the bins' densities
EachBinOnce(top, pdf) ==
    LET tops   == {k \in Decls(top) : out[k].name.i = -1}
        blocks == {k \in Decls(top) : out[k].name.i >= 0}
        t      == CHOOSE k \in tops : TRUE
    IN  /\ Cardinality(tops) = 1
        /\ IF bins <= DirectCap
           THEN /\ blocks = {}
                /\ Len(out[t].args) = bins
                /\ \A b \in 0..(bins - 1) : Count(out[t].args, Sym(pdf, b, -1)) = 1
           ELSE /\ Cardinality(blocks) = CeilBlocks
                /\ \A k \in blocks :
                        /\ Len(out[k].args) \in 1..BlockSize
                        /\ \A j \in 1..Len(out[k].args) :
                                /\ out[k].args[j].base = pdf
                                /\ out[k].args[j].i = out[k].args[1].i + j - 1
                /\ \A b \in 0..(bins - 1) :
                        /\ Cardinality({k \in blocks : Count(out[k].args, Sym(pdf, b, -1)) > 0}) = 1
                        /\ \A k \in blocks : Count(out[k].args, Sym(pdf, b, -1)) <= 1
                /\ Len(out[t].args) = Cardinality(blocks)
                /\ \A k \in blocks : k < t /\ Count(out[t].args, out[k].name) = 1

\* C9: every bin's density is a factor of the joint density exactly once:
\* directly up to 50 bins, through exactly one of ceil(bins/10) non-empty
\* blocks of at most 10 consecutive bins above 50.
C9_EachBinContributesOnce ==
    pc \in {"model", "done"}
        => /\ EachBinOnce(PrefixS, "pdf_bin")
           /\ EachBinOnce(PrefixB, "pdf_bin_bonly")

\* the 60 bins of the example, in 6 blocks for each variant
C9_Witness ==
    /\ pc = "done"
    /\ bins = 60
    /\ Cardinality({k \in Decls(PrefixS) : out[k].name.i >= 0}) = 6
    /\ Cardinality({k \in Decls(PrefixB) : out[k].name.i >= 0}) = 6

\* the symbols a statement declares and those it refers to
Declared(st) ==
    IF st.kind = "comment" THEN {}
    ELSE {st.name} \cup {st.decl[j] : j \in 1..Len(st.decl)}
Referred(st) ==
    {st.args[j] : j \in 1..Len(st.args)}
        \cup ({st.formula[j].s : j \in 1..Len(st.formula)} \ {NoSym})
        \cup (IF \E j \in 1..Len(st.formula) : st.formula[j].op = "r*" THEN {Sym("r", -1, -1)} ELSE {})

\* C10: in a complete script, every symbol a statement refers to is declared
\* exactly once, by that statement's own inline declaration or by an earlier
\* statement, every expression has a formula and arguments, and model_s and
\* model_b are declared exactly once.
C10_ScriptWellFormed ==
    (pc = "done" /\ bins >= 1 /\ processes >= 1) =>
        /\ \A k \in 1..Len(out) : \A x \in Referred(out[k]) :
                /\ Cardinality({j \in 1..Len(out) : x \in Declared(out[j])}) = 1
                /\ \E j \in 1..k : x \in Declared(out[j]) /\ (j = k => x # out[k].name)
        /\ \A k \in 1..Len(out) :
                out[k].kind = "expr" => (out[k].formula # <<>> /\ out[k].args # <<>>)
        /\ Cardinality({k \in Decls("model_s") : out[k].name.i = -1}) = 1
        /\ Cardinality({k \in Decls("model_b") : out[k].name.i = -1}) = 1

====
